---- MODULE Spec2Model ----
(***************************************************************************)
(* The central application store of src/server/router-render.js: the      *)
(* dispatch reducer (createStore, lines 62-368), the fetch counter        *)
(* (fetchStart / fetchDone), the render scheduler (update), the pending   *)
(* action bridge (window.localStorage.pendingDispatch) and the server     *)
(* route handler that waits for the counter to settle (lines 12-41).      *)
(*                                                                         *)
(* JavaScript runs one task at a time, but dispatch() is re-entered from  *)
(* inside render() and from inside dispatch() itself.  The call stack of  *)
(* the running task is the variable `stack`: its head is the call that   *)
(* executes next, the frames below it are what the callers still have to  *)
(* do once that call returns.  An uncaught exception empties the stack.   *)
(***************************************************************************)
EXTENDS Integers, Sequences, FiniteSets, TLC

VARIABLES
    store,            \* the ApplicationState object (lines 63-92)
    isRendering,      \* line 343
    isUpdatePending,  \* line 344
    pendingDispatch,  \* window.localStorage.pendingDispatch: <<>> or <<text>>
    href,             \* window.location.href as last assigned by the store
    inflight,         \* API calls started whose callback has not run yet
    stack,            \* call stack of the running task, head = innermost
    failure,          \* exception that ended the running task, or "none"
    isBrowser,        \* config.isBrowser: TRUE in the browser, FALSE on the server
    ticks,            \* done() calls queued with process.nextTick (line 27)
    sent,             \* statuses of the responses formatted by done() (line 36)
    nDispatch,        \* dispatches issued so far by views and user input
    passDispatches,   \* dispatches issued from inside the current render() call
    passUpdates,      \* update() calls made during the current render() call
    dirty,            \* update() was called and no render() has started since
    replay            \* history of the bridge: "none", "replayed", "resaved"

vars == <<store, isRendering, isUpdatePending, pendingDispatch, href, inflight,
          stack, failure, isBrowser, ticks, sent, nDispatch, passDispatches,
          passUpdates, dirty, replay>>

(***************************************************************************)
(* Bounds of the model.                                                    *)
(***************************************************************************)
MaxDispatch == 2

(***************************************************************************)
(* Values.  JavaScript null and undefined are the strings below where the *)
(* field is a string, and the empty tuple where the field is an object    *)
(* (<<v>> is then the object v).                                           *)
(***************************************************************************)
Null == "null"
Undefined == "undefined"
None == <<>>
Some(v) == <<v>>

configName == "nodefoo"

Urls == {"/", "/search?q=a", "/nope"}

SnippetIds == {"s1", "s2"}

Bodies == {"x", "y"}

Snippets == [id : SnippetIds, body : Bodies]

StartTags == {"API_DOC", "API_SNIPPET_ADD", "API_SNIPPET_VOTE",
              "API_SNIPPET_GET", "API_SNIPPET_ALL", "API_SNIPPET_SEARCH"}

DoneTag(tag) == tag \o "_DONE"

DoneTags == {DoneTag(t) : t \in StartTags}

RecognizedTags ==
    {"LOCATION_PUSH", "LOCATION_REPLACE", "LOCATION_BACK", "LOCATION_CHANGED",
     "APP_TITLE", "APP_RESIZE", "SEARCH_INPUT", "CLIPBOARD_COPY",
     "RUN_PENDING_DISPATCH"} \cup StartTags \cup DoneTags

NoData == [none |-> TRUE]

\* new Error(...) of line 176: no code property.
LoginError ==
    [message |-> "Last step! Log in to get credit for your contribution.",
     code |-> Undefined]

\* The errors an API callback can report: one with a code, one without.
ApiErrors == {[message |-> "failed", code |-> "E1"],
              [message |-> "failed", code |-> Undefined]}


(***************************************************************************)
(* Collaborators that are not part of the store.                           *)
(***************************************************************************)

\* routes: the route name a URL resolves to.
RouteName(url) ==
    IF url = "/" THEN "home"
    ELSE IF url = "/search?q=a" THEN "search"
    ELSE "not-found"

\* Location: the record handed to the location-changed callback (line 94).
\* params, query and pathname are functions of url and are left out.
Resolve(url) == [name |-> RouteName(url), url |-> url]

\* querystring.encode({ q: data }) of line 272.
QueryEncode(q) == "q=" \o q

\* The payloads views pass to API_SNIPPET_ADD: an object whose optional
\* property may be undefined.
AddData == {[body |-> "x", tag |-> Undefined], [body |-> "y", tag |-> "t"]}

\* What an API collaborator hands to its callback on success.
ApiResults(tag) ==
    CASE tag = "API_DOC" -> {[doc |-> "d1"]}
      [] tag = "API_SNIPPET_ADD" -> {[result |-> "ok"]}
      [] tag = "API_SNIPPET_VOTE" -> {[snippet |-> s] : s \in Snippets}
      [] tag = "API_SNIPPET_GET" -> {[snippet |-> s] : s \in Snippets}
      [] tag = "API_SNIPPET_ALL" ->
            {[snippets |-> <<[id |-> "s1", body |-> "x"]>>],
             [snippets |-> <<[id |-> "s2", body |-> "y"],
                             [id |-> "s1", body |-> "y"]>>]}
      [] tag = "API_SNIPPET_SEARCH" -> {[search |-> [q |-> "a", n |-> "1"]]}

\* The { err, ... } object the callbacks of lines 153-155, 181-183, ... build.
DonePayloads(tag) ==
    {[err |-> None, res |-> r] : r \in ApiResults(tag)}
      \cup {[err |-> Some(e), res |-> NoData] : e \in ApiErrors}

(***************************************************************************)
(* JSON.  JSON.stringify drops the properties whose value is undefined;   *)
(* the text is modelled by the value it denotes.  JSON.parse throws on a   *)
(* text that is not JSON.                                                  *)
(***************************************************************************)
DropUndefined(obj) ==
    [k \in {f \in DOMAIN obj : obj[f] # Undefined} |-> obj[k]]

JSONStringify(action) ==
    IF action.data = NoData
    THEN [valid |-> TRUE, value |-> [type |-> action.type]]
    ELSE [valid |-> TRUE,
          value |-> [type |-> action.type, data |-> DropUndefined(action.data)]]

CorruptText == [valid |-> FALSE, value |-> [type |-> "{"]]

\* The value of `event` after lines 297-300: None when JSON.parse threw.
JSONParse(text) == IF text.valid THEN Some(text.value) ELSE None

\* event.data of line 304: undefined when the property is absent.
EventData(event) == IF "data" \in DOMAIN event THEN event.data ELSE NoData

(***************************************************************************)
(* The store's helpers, as functions of the store object.                  *)
(***************************************************************************)

\* lines 314-316
addPendingDispatch(type, data) ==
    Some(JSONStringify([type |-> type, data |-> data]))

\* lines 319-321
fetchStart(s) == [s EXCEPT !.app.fetchCount = @ + 1]

\* line 324
fetchDone(s) == [s EXCEPT !.app.fetchCount = @ - 1]

\* onFetchEnd without the test of line 27: done is queued at every decrement.
onFetchEndAlways(s, queued) == IF ~isBrowser THEN queued + 1 ELSE queued

\* line 325 with the server's onFetchEnd (lines 26-28): the number of queued
\* done() calls after the notification.  The browser registers no observer.
onFetchEnd(s, queued) ==
    IF ~isBrowser /\ s.app.fetchCount = 0 THEN queued + 1 ELSE queued

\* addError without the default of line 329: the code stays undefined.
addErrorNoDefault(s, err) ==
    [s EXCEPT !.errors = Append(@, [message |-> err.message, code |-> err.code])]

\* lines 329-330: code defaults to null when the error has none.
addError(s, err) ==
    [s EXCEPT !.errors =
        Append(@, [message |-> err.message,
                   code |-> IF err.code = Undefined THEN Null ELSE err.code])]

\* lines 335-337
addSnippetKeepFirst(s, snippet) ==
    [s EXCEPT !.snippets =
        [@ EXCEPT ![snippet.id] = IF @ = None THEN Some(snippet) ELSE @]]

\* lines 335-337
addSnippet(s, snippet) ==
    [s EXCEPT !.snippets = [@ EXCEPT ![snippet.id] = Some(snippet)]]

RECURSIVE addSnippets(_, _)
\* line 241: snippets.map(addSnippet)
addSnippets(s, snippets) ==
    IF snippets = <<>> THEN s
    ELSE addSnippets(addSnippet(s, Head(snippets)), Tail(snippets))

\* lines 339-341
addSearch(s, search) ==
    [s EXCEPT !.searches = [@ EXCEPT ![search.q] = Some(search)]]

\* line 136
Title(data) ==
    IF data = "" THEN configName ELSE data \o " - " \o configName

\* A status that ignores the route.
StatusOk(s) == IF s.location.name = Null THEN 404 ELSE 200

\* lines 35-36
Status(s) == IF s.location.name = "not-found" THEN 404 ELSE 200

(***************************************************************************)
(* Call stack frames.                                                      *)
(***************************************************************************)
Dispatch(type, data, by) ==
    [op |-> "dispatch", type |-> type, data |-> data, by |-> by]

UpdateCall == [op |-> "update"]

RenderCall == [op |-> "render"]

RedirectStmt == [op |-> "redirect"]

RouteCheck == [op |-> "routeCheck"]

Top == Head(stack)

At(op) == stack # <<>> /\ Top.op = op

AtDispatch(type) == At("dispatch") /\ Top.type = type

\* The running call returns and its caller goes on with `frames`.
Continue(frames) == stack' = frames \o Tail(stack)

InRender == \E i \in 1..Len(stack) : stack[i].op = "render"

\* An exception nothing catches: every caller on the stack is abandoned.
Throw(kind) ==
    /\ stack' = <<>>
    /\ failure' = kind
    /\ passDispatches' = 0
    /\ passUpdates' = 0

NoThrow == UNCHANGED <<failure, passDispatches, passUpdates>>

(***************************************************************************)
(* Initial state: createStore has returned (lines 62-92, 343-344).  In the *)
(* browser the page may have been loaded after a login (userName set by    *)
(* the page) and the bridge holds whatever an earlier page left there.  On *)
(* the server the route handler is about to dispatch LOCATION_REPLACE.     *)
(***************************************************************************)
NewStore(user) ==
    [location |-> [name |-> Null, url |-> Null],
     app |-> [title |-> Null, width |-> 0, height |-> 0, fetchCount |-> 0],
     fatalError |-> Null,
     errors |-> <<>>,
     userName |-> user,
     snippets |-> [id \in SnippetIds |-> None],
     searches |-> [q \in {"a"} |-> None],
     topSnippetIds |-> None,
     doc |-> Null,
     lastSearch |-> Undefined]

Users == {Null, "alice"}

InitBridge ==
    {None, Some(CorruptText),
     addPendingDispatch("API_SNIPPET_ADD", [body |-> "x", tag |-> Undefined])}

Init ==
    /\ isBrowser \in BOOLEAN
    /\ \E user \in Users :
          /\ isBrowser \/ user = Null
          /\ store = NewStore(user)
    /\ isRendering = FALSE
    /\ isUpdatePending = FALSE
    /\ pendingDispatch \in InitBridge
    /\ isBrowser \/ pendingDispatch = None
    /\ href = Null
    /\ inflight = [t \in StartTags |-> 0]
    /\ \E url \in Urls :
          stack = IF isBrowser THEN <<>>
                  ELSE <<Dispatch("LOCATION_REPLACE", [url |-> url], "router"),
                         RouteCheck>>
    /\ failure = "none"
    /\ ticks = 0
    /\ sent = <<>>
    /\ nDispatch = 0
    /\ passDispatches = 0
    /\ passUpdates = 0
    /\ dirty = FALSE
    /\ replay = "none"


(***************************************************************************)
(* The render scheduler (lines 343-362).                                   *)
(***************************************************************************)
quiet == <<isRendering, isUpdatePending, href, isBrowser, sent, nDispatch, dirty>>

\* update() without the guard of lines 348-351: it renders whenever called.
updateNoGuard ==
    /\ At("update")
    /\ isRendering' = TRUE
    /\ Continue(<<RenderCall>>)
    /\ dirty' = FALSE
    /\ passUpdates' = 0
    /\ passDispatches' = 0
    /\ UNCHANGED <<store, isUpdatePending, pendingDispatch, href, inflight,
                   failure, isBrowser, ticks, sent, nDispatch, replay>>

\* update() whose guard returns without line 349: the request is dropped.
updateDropsRequest ==
    /\ At("update")
    /\ IF isRendering
       THEN /\ Continue(<<>>)
            /\ dirty' = TRUE
            /\ passUpdates' = IF InRender THEN passUpdates + 1 ELSE passUpdates
            /\ UNCHANGED <<isRendering, isUpdatePending, passDispatches>>
       ELSE /\ isRendering' = TRUE
            /\ Continue(<<RenderCall>>)
            /\ dirty' = FALSE
            /\ passUpdates' = 0
            /\ passDispatches' = 0
            /\ UNCHANGED isUpdatePending
    /\ UNCHANGED <<store, pendingDispatch, href, inflight, failure, isBrowser,
                   ticks, sent, nDispatch, replay>>

\* update(), lines 346-355: up to the call of render().
update ==
    /\ At("update")
    /\ IF isRendering
       THEN /\ isUpdatePending' = TRUE
            /\ Continue(<<>>)
            /\ dirty' = TRUE
            /\ passUpdates' = IF InRender THEN passUpdates + 1 ELSE passUpdates
            /\ UNCHANGED <<isRendering, passDispatches>>
       ELSE /\ isRendering' = TRUE
            /\ Continue(<<RenderCall>>)
            /\ dirty' = FALSE
            /\ passUpdates' = 0
            /\ passDispatches' = 0
            /\ UNCHANGED isUpdatePending
    /\ UNCHANGED <<store, pendingDispatch, href, inflight, failure, isBrowser,
                   ticks, sent, nDispatch, replay>>

\* update() without lines 358-361: the pending request is cleared, not served.
renderReturnsNoTrailing ==
    /\ At("render")
    /\ isRendering' = FALSE
    /\ isUpdatePending' = FALSE
    /\ Continue(<<>>)
    /\ passUpdates' = 0
    /\ passDispatches' = 0
    /\ UNCHANGED <<store, pendingDispatch, href, inflight, failure, isBrowser,
                   ticks, sent, nDispatch, dirty, replay>>

\* update(), lines 356-361: render() has returned.
renderReturns ==
    /\ At("render")
    /\ isRendering' = FALSE
    /\ IF isUpdatePending
       THEN /\ isUpdatePending' = FALSE
            /\ Continue(<<UpdateCall>>)
       ELSE /\ Continue(<<>>)
            /\ UNCHANGED isUpdatePending
    /\ passUpdates' = 0
    /\ passDispatches' = 0
    /\ UNCHANGED <<store, pendingDispatch, href, inflight, failure, isBrowser,
                   ticks, sent, nDispatch, dirty, replay>>

(***************************************************************************)
(* The environment: user input, views, API completions, page loads.        *)
(***************************************************************************)
BogusTag == "BOGUS"

\* The actions views and input handlers dispatch in the browser.
BrowserActions ==
    {[type |-> t, data |-> [url |-> u]] :
        t \in {"LOCATION_PUSH", "LOCATION_REPLACE"}, u \in Urls}
    \cup {[type |-> "APP_TITLE", data |-> [title |-> d]] : d \in {"", "a"}}
    \cup {[type |-> "API_SNIPPET_ADD", data |-> d] : d \in AddData}
    \cup {[type |-> "SEARCH_INPUT", data |-> [q |-> d]] : d \in {"", "a"}}
    \cup {[type |-> "LOCATION_BACK", data |-> NoData],
          [type |-> "APP_RESIZE", data |-> [width |-> 2, height |-> 1]],
          [type |-> "API_DOC", data |-> NoData],
          [type |-> "API_SNIPPET_VOTE", data |-> [id |-> "s1"]],
          [type |-> "API_SNIPPET_GET", data |-> [id |-> "s1"]],
          [type |-> "API_SNIPPET_ALL", data |-> NoData],
          [type |-> "API_SNIPPET_SEARCH", data |-> [q |-> "a"]],
          [type |-> "CLIPBOARD_COPY", data |-> [text |-> "c"]],
          [type |-> "RUN_PENDING_DISPATCH", data |-> NoData],
          [type |-> BogusTag, data |-> NoData]}

\* On the server there is no user and no window: views dispatch only what a
\* first paint needs (navigation, title, fetches) or, by a defect, a bad tag.
ServerActions ==
    {a \in BrowserActions :
        a.type \notin {"API_SNIPPET_ADD", "SEARCH_INPUT", "LOCATION_BACK",
                       "APP_RESIZE", "CLIPBOARD_COPY", "RUN_PENDING_DISPATCH"}}

EnvActions == IF isBrowser THEN BrowserActions ELSE ServerActions

\* An event handler or a timer of the page calls dispatch from an empty stack.
UserDispatch ==
    /\ isBrowser
    /\ stack = <<>>
    /\ nDispatch < MaxDispatch
    /\ \E a \in EnvActions : stack' = <<Dispatch(a.type, a.data, "user")>>
    /\ nDispatch' = nDispatch + 1
    /\ failure' = "none"
    /\ UNCHANGED <<store, isRendering, isUpdatePending, pendingDispatch, href,
                   inflight, isBrowser, ticks, sent, passDispatches,
                   passUpdates, dirty, replay>>

\* render() (line 355, lines 30-32) calls dispatch before it returns.
RenderDispatch ==
    /\ At("render")
    /\ nDispatch < MaxDispatch
    /\ \E a \in EnvActions :
          stack' = <<Dispatch(a.type, a.data, "view")>> \o stack
    /\ nDispatch' = nDispatch + 1
    /\ passDispatches' = passDispatches + 1
    /\ UNCHANGED <<store, isRendering, isUpdatePending, pendingDispatch, href,
                   inflight, failure, isBrowser, ticks, sent, passUpdates,
                   dirty, replay>>

\* An API collaborator invokes its callback (lines 153-155, 181-183, 197-199,
\* 213-215, 230-232, 248-250) in a task of its own, after the queued ticks.
ApiCallback ==
    /\ stack = <<>>
    /\ ticks = 0
    /\ \E tag \in StartTags :
          /\ inflight[tag] > 0
          /\ \E payload \in DonePayloads(tag) :
                stack' = <<Dispatch(DoneTag(tag), payload, "callback")>>
    /\ failure' = "none"
    /\ UNCHANGED <<store, isRendering, isUpdatePending, pendingDispatch, href,
                   inflight, isBrowser, ticks, sent, nDispatch, passDispatches,
                   passUpdates, dirty, replay>>

\* The page is loaded again (after the redirect of line 178, or by the user):
\* a new store is created, localStorage is kept.
Reload ==
    /\ isBrowser
    /\ stack = <<>>
    /\ \E user \in Users : store' = NewStore(user)
    /\ isRendering' = FALSE
    /\ isUpdatePending' = FALSE
    /\ href' = Null
    /\ inflight' = [t \in StartTags |-> 0]
    /\ failure' = "none"
    /\ dirty' = FALSE
    /\ replay' = IF replay \in {"replayed", "resaved"}
                 THEN replay \o "+load" ELSE replay
    /\ UNCHANGED <<pendingDispatch, stack, isBrowser, ticks, sent, nDispatch,
                   passDispatches, passUpdates>>

(***************************************************************************)
(* The server route handler (lines 12-41).                                 *)
(***************************************************************************)

\* The route handler without line 24.
routeCheckNoDone ==
    /\ At("routeCheck")
    /\ Continue(<<>>)
    /\ UNCHANGED <<store, isRendering, isUpdatePending, pendingDispatch, href,
                   inflight, failure, isBrowser, ticks, sent, nDispatch,
                   passDispatches, passUpdates, dirty, replay>>

\* line 24: if (store.app.fetchCount === 0) done()
routeCheck ==
    /\ At("routeCheck")
    /\ Continue(<<>>)
    /\ sent' = IF store.app.fetchCount = 0
               THEN Append(sent, Status(store)) ELSE sent
    /\ UNCHANGED <<store, isRendering, isUpdatePending, pendingDispatch, href,
                   inflight, failure, isBrowser, ticks, nDispatch,
                   passDispatches, passUpdates, dirty, replay>>

\* done() run by process.nextTick (lines 27, 34-40).
done ==
    /\ stack = <<>>
    /\ ticks > 0
    /\ ticks' = ticks - 1
    /\ sent' = Append(sent, Status(store))
    /\ failure' = "none"
    /\ UNCHANGED <<store, isRendering, isUpdatePending, pendingDispatch, href,
                   inflight, stack, isBrowser, nDispatch, passDispatches,
                   passUpdates, dirty, replay>>


(***************************************************************************)
(* dispatch (lines 98-312), one action per case of the switch.  Each runs  *)
(* the case up to its first call of dispatch() or update() and leaves the  *)
(* rest of the case on the stack.                                          *)
(***************************************************************************)
data == Top.data

\* lines 107-111, 113-117.  loc.push and loc.replace notify the callback of
\* line 94 before they return; they differ only in the history they keep.
LocationGo(type) ==
    /\ AtDispatch(type)
    /\ IF data.url # store.location.url
       THEN Continue(<<Dispatch("LOCATION_CHANGED", Resolve(data.url), "location")>>)
       ELSE Continue(<<>>)
    /\ NoThrow
    /\ UNCHANGED <<store, pendingDispatch, inflight, ticks, replay>>
    /\ UNCHANGED quiet

LOCATION_PUSH == LocationGo("LOCATION_PUSH")

LOCATION_REPLACE == LocationGo("LOCATION_REPLACE")

\* lines 119-122: loc.back() goes to some earlier entry of the history.
LOCATION_BACK ==
    /\ AtDispatch("LOCATION_BACK")
    /\ \E url \in Urls :
          Continue(<<Dispatch("LOCATION_CHANGED", Resolve(url), "location")>>)
    /\ NoThrow
    /\ UNCHANGED <<store, pendingDispatch, inflight, ticks, replay>>
    /\ UNCHANGED quiet

\* LOCATION_CHANGED that merges the url into the old location.
LOCATION_CHANGED_Merge ==
    /\ AtDispatch("LOCATION_CHANGED")
    /\ store' = [store EXCEPT !.location = [@ EXCEPT !.url = data.url],
                              !.fatalError = Null]
    /\ Continue(<<UpdateCall>>)
    /\ NoThrow
    /\ UNCHANGED <<pendingDispatch, inflight, ticks, replay>>
    /\ UNCHANGED quiet

\* lines 124-129 (the analytics call of line 127 keeps no state)
LOCATION_CHANGED ==
    /\ AtDispatch("LOCATION_CHANGED")
    /\ store' = [store EXCEPT !.location = data, !.fatalError = Null]
    /\ Continue(<<UpdateCall>>)
    /\ NoThrow
    /\ UNCHANGED <<pendingDispatch, inflight, ticks, replay>>
    /\ UNCHANGED quiet

\* lines 135-139
APP_TITLE ==
    /\ AtDispatch("APP_TITLE")
    /\ store' = [store EXCEPT !.app.title = Title(data.title)]
    /\ Continue(<<UpdateCall>>)
    /\ NoThrow
    /\ UNCHANGED <<pendingDispatch, inflight, ticks, replay>>
    /\ UNCHANGED quiet

\* lines 141-145
APP_RESIZE ==
    /\ AtDispatch("APP_RESIZE")
    /\ store' = [store EXCEPT !.app.width = data.width,
                              !.app.height = data.height]
    /\ Continue(<<UpdateCall>>)
    /\ NoThrow
    /\ UNCHANGED <<pendingDispatch, inflight, ticks, replay>>
    /\ UNCHANGED quiet

\* lines 151-157, 195-201, 211-217, 228-234, 246-252: fetchStart(), the API
\* call, update().
ApiStart(tag) ==
    /\ AtDispatch(tag)
    /\ store' = fetchStart(store)
    /\ inflight' = [inflight EXCEPT ![tag] = @ + 1]
    /\ Continue(<<UpdateCall>>)
    /\ NoThrow
    /\ UNCHANGED <<pendingDispatch, ticks, replay>>
    /\ UNCHANGED quiet

API_DOC == ApiStart("API_DOC")

API_SNIPPET_VOTE == ApiStart("API_SNIPPET_VOTE")

API_SNIPPET_GET == ApiStart("API_SNIPPET_GET")

API_SNIPPET_ALL == ApiStart("API_SNIPPET_ALL")

API_SNIPPET_SEARCH == ApiStart("API_SNIPPET_SEARCH")

\* API_SNIPPET_ADD without the return of line 179: the API is called anyway.
API_SNIPPET_ADD_FallsThrough ==
    /\ AtDispatch("API_SNIPPET_ADD")
    /\ IF store.userName = Null
       THEN /\ pendingDispatch' = addPendingDispatch(Top.type, data)
            /\ store' = addError(fetchStart(store), LoginError)
            /\ Continue(<<UpdateCall, RedirectStmt, UpdateCall>>)
            /\ replay' = IF Top.by = "replay" THEN "resaved" ELSE "none"
            /\ inflight' = [inflight EXCEPT !["API_SNIPPET_ADD"] = @ + 1]
       ELSE /\ store' = fetchStart(store)
            /\ inflight' = [inflight EXCEPT !["API_SNIPPET_ADD"] = @ + 1]
            /\ Continue(<<UpdateCall>>)
            /\ UNCHANGED <<pendingDispatch, replay>>
    /\ NoThrow
    /\ UNCHANGED ticks
    /\ UNCHANGED quiet

\* lines 171-185
API_SNIPPET_ADD ==
    /\ AtDispatch("API_SNIPPET_ADD")
    /\ IF store.userName = Null
       THEN /\ pendingDispatch' = addPendingDispatch(Top.type, data)
            /\ store' = addError(fetchStart(store), LoginError)
            /\ Continue(<<UpdateCall, RedirectStmt>>)
            /\ replay' = IF Top.by = "replay" THEN "resaved" ELSE "none"
            /\ UNCHANGED inflight
       ELSE /\ store' = fetchStart(store)
            /\ inflight' = [inflight EXCEPT !["API_SNIPPET_ADD"] = @ + 1]
            /\ Continue(<<UpdateCall>>)
            /\ UNCHANGED <<pendingDispatch, replay>>
    /\ NoThrow
    /\ UNCHANGED ticks
    /\ UNCHANGED quiet

\* line 178: window.location.href = '/auth/twitter'
redirect ==
    /\ At("redirect")
    /\ href' = "/auth/twitter"
    /\ Continue(<<>>)
    /\ UNCHANGED <<store, isRendering, isUpdatePending, pendingDispatch,
                   inflight, failure, isBrowser, ticks, sent, nDispatch,
                   passDispatches, passUpdates, dirty, replay>>

\* The *_DONE cases: fetchDone(), then the error or the result.  `merge` is
\* what the case does with a result, `next` the calls it then makes.
ApiDone(tag, merged, next) ==
    /\ AtDispatch(DoneTag(tag))
    /\ inflight' = [inflight EXCEPT ![tag] = @ - 1]
    /\ ticks' = onFetchEnd(fetchDone(store), ticks)
    /\ IF data.err # None
       THEN /\ store' = addError(fetchDone(store), data.err[1])
            /\ Continue(<<UpdateCall>>)
       ELSE /\ store' = merged
            /\ Continue(next)
    /\ NoThrow
    /\ UNCHANGED <<pendingDispatch, replay>>
    /\ UNCHANGED quiet

\* lines 159-165
API_DOC_DONE ==
    ApiDone("API_DOC",
            [fetchDone(store) EXCEPT !.doc = data.res.doc],
            <<UpdateCall>>)

\* lines 187-193
API_SNIPPET_ADD_DONE ==
    ApiDone("API_SNIPPET_ADD",
            fetchDone(store),
            <<Dispatch("LOCATION_PUSH", [url |-> "/"], "store"), UpdateCall>>)

\* lines 203-209
API_SNIPPET_VOTE_DONE ==
    ApiDone("API_SNIPPET_VOTE",
            addSnippet(fetchDone(store), data.res.snippet),
            <<UpdateCall>>)

\* lines 219-226
API_SNIPPET_GET_DONE ==
    ApiDone("API_SNIPPET_GET",
            addSnippet(fetchDone(store), data.res.snippet),
            <<UpdateCall>>)

\* line 242: snippets.map(snippet => snippet.id)
Ids(snippets) == [i \in 1..Len(snippets) |-> snippets[i].id]

\* lines 236-244
API_SNIPPET_ALL_DONE ==
    ApiDone("API_SNIPPET_ALL",
            [addSnippets(fetchDone(store), data.res.snippets)
                EXCEPT !.topSnippetIds = Some(Ids(data.res.snippets))],
            <<UpdateCall>>)

\* lines 254-260
API_SNIPPET_SEARCH_DONE ==
    ApiDone("API_SNIPPET_SEARCH",
            addSearch(fetchDone(store), data.res.search),
            <<UpdateCall>>)

\* lines 266-279
SEARCH_INPUT ==
    /\ AtDispatch("SEARCH_INPUT")
    /\ store' = [store EXCEPT !.lastSearch = data.q]
    /\ IF data.q = ""
       THEN Continue(<<Dispatch("LOCATION_BACK", NoData, "store")>>)
       ELSE Continue(<<Dispatch(IF store.location.name = "search"
                                THEN "LOCATION_REPLACE" ELSE "LOCATION_PUSH",
                                [url |-> "/search?" \o QueryEncode(data.q)],
                                "store")>>)
    /\ NoThrow
    /\ UNCHANGED <<pendingDispatch, inflight, ticks, replay>>
    /\ UNCHANGED quiet

\* lines 285-288 (the clipboard is not state of the program)
CLIPBOARD_COPY ==
    /\ AtDispatch("CLIPBOARD_COPY")
    /\ Continue(<<>>)
    /\ NoThrow
    /\ UNCHANGED <<store, pendingDispatch, inflight, ticks, replay>>
    /\ UNCHANGED quiet

\* RUN_PENDING_DISPATCH with the delete of line 302 moved after line 304: a
\* replay that throws leaves the bridge as it was.
RUN_PENDING_DISPATCH_DeleteLast ==
    /\ AtDispatch("RUN_PENDING_DISPATCH")
    /\ IF pendingDispatch = None
       THEN /\ Continue(<<>>)
            /\ NoThrow
            /\ UNCHANGED <<pendingDispatch, replay>>
       ELSE LET event == JSONParse(pendingDispatch[1]) IN
            /\ replay' = "replayed"
            /\ IF event = None
               THEN /\ Throw("TypeError")
                    /\ UNCHANGED pendingDispatch
               ELSE /\ Continue(<<Dispatch(event[1].type, EventData(event[1]),
                                           "replay"),
                                  UpdateCall>>)
                    /\ pendingDispatch' = None
                    /\ NoThrow
    /\ UNCHANGED <<store, inflight, ticks>>
    /\ UNCHANGED quiet

\* RUN_PENDING_DISPATCH that re-dispatches the stored type without its data.
RUN_PENDING_DISPATCH_TypeOnly ==
    /\ AtDispatch("RUN_PENDING_DISPATCH")
    /\ IF pendingDispatch = None
       THEN /\ Continue(<<>>)
            /\ NoThrow
            /\ UNCHANGED <<pendingDispatch, replay>>
       ELSE LET event == JSONParse(pendingDispatch[1]) IN
            /\ pendingDispatch' = None
            /\ replay' = "replayed"
            /\ IF event = None
               THEN Throw("TypeError")
               ELSE /\ Continue(<<Dispatch(event[1].type, NoData, "replay"),
                                  UpdateCall>>)
                    /\ NoThrow
    /\ UNCHANGED <<store, inflight, ticks>>
    /\ UNCHANGED quiet

\* RUN_PENDING_DISPATCH without the return of line 295: on an empty bridge
\* JSON.parse(undefined) throws, event stays undefined and line 304 throws.
RUN_PENDING_DISPATCH_NoEarlyReturn ==
    /\ AtDispatch("RUN_PENDING_DISPATCH")
    /\ LET event == IF pendingDispatch = None THEN None
                    ELSE JSONParse(pendingDispatch[1]) IN
       /\ pendingDispatch' = None
       /\ replay' = IF pendingDispatch = None THEN replay ELSE "replayed"
       /\ IF event = None
          THEN Throw("TypeError")
          ELSE /\ Continue(<<Dispatch(event[1].type, EventData(event[1]),
                                      "replay"),
                             UpdateCall>>)
               /\ NoThrow
    /\ UNCHANGED <<store, inflight, ticks>>
    /\ UNCHANGED quiet

\* lines 294-306.  When JSON.parse throws, event stays undefined and
\* event.type of line 304 throws a TypeError, after the delete of line 302.
RUN_PENDING_DISPATCH ==
    /\ AtDispatch("RUN_PENDING_DISPATCH")
    /\ IF pendingDispatch = None
       THEN /\ Continue(<<>>)
            /\ NoThrow
            /\ UNCHANGED <<pendingDispatch, replay>>
       ELSE LET event == JSONParse(pendingDispatch[1]) IN
            /\ pendingDispatch' = None
            /\ replay' = "replayed"
            /\ IF event = None
               THEN Throw("TypeError")
               ELSE /\ Continue(<<Dispatch(event[1].type, EventData(event[1]),
                                           "replay"),
                                  UpdateCall>>)
                    /\ NoThrow
    /\ UNCHANGED <<store, inflight, ticks>>
    /\ UNCHANGED quiet

\* A default case that returns instead of throwing.
defaultReturns ==
    /\ At("dispatch")
    /\ Top.type \notin RecognizedTags
    /\ Continue(<<>>)
    /\ NoThrow
    /\ UNCHANGED <<store, pendingDispatch, inflight, ticks, replay>>
    /\ UNCHANGED quiet

\* lines 308-310
default ==
    /\ At("dispatch")
    /\ Top.type \notin RecognizedTags
    /\ Throw("Unrecognized dispatch type")
    /\ UNCHANGED <<store, pendingDispatch, inflight, ticks, replay>>
    /\ UNCHANGED quiet

dispatch ==
    \/ LOCATION_PUSH \/ LOCATION_REPLACE \/ LOCATION_BACK \/ LOCATION_CHANGED
    \/ APP_TITLE \/ APP_RESIZE
    \/ API_DOC \/ API_DOC_DONE
    \/ API_SNIPPET_ADD \/ API_SNIPPET_ADD_DONE
    \/ API_SNIPPET_VOTE \/ API_SNIPPET_VOTE_DONE
    \/ API_SNIPPET_GET \/ API_SNIPPET_GET_DONE
    \/ API_SNIPPET_ALL \/ API_SNIPPET_ALL_DONE
    \/ API_SNIPPET_SEARCH \/ API_SNIPPET_SEARCH_DONE
    \/ SEARCH_INPUT \/ CLIPBOARD_COPY \/ RUN_PENDING_DISPATCH \/ default

Next ==
    \/ dispatch
    \/ update
    \/ renderReturns
    \/ redirect
    \/ routeCheck
    \/ done
    \/ UserDispatch
    \/ RenderDispatch
    \/ ApiCallback
    \/ Reload

Spec == Init /\ [][Next]_vars


(***************************************************************************)
(* Properties.                                                             *)
(***************************************************************************)
(***************************************************************************)
(* One server request (lines 12-41) with a fair scheduler: Node runs the   *)
(* code on the call stack to its end, runs every queued tick, and every    *)
(* API call eventually invokes its callback.  Whether a view dispatches is *)
(* left open; MaxDispatch bounds how often it does.                        *)
(***************************************************************************)
InitServer == Init /\ ~isBrowser

\* The cases of the switch a server render reaches.
dispatchServer ==
    \/ LOCATION_PUSH \/ LOCATION_REPLACE \/ LOCATION_CHANGED
    \/ APP_TITLE
    \/ API_DOC \/ API_DOC_DONE
    \/ API_SNIPPET_VOTE \/ API_SNIPPET_VOTE_DONE
    \/ API_SNIPPET_GET \/ API_SNIPPET_GET_DONE
    \/ API_SNIPPET_ALL \/ API_SNIPPET_ALL_DONE
    \/ API_SNIPPET_SEARCH \/ API_SNIPPET_SEARCH_DONE
    \/ default

\* The code on the call stack.
Run ==
    \/ dispatchServer
    \/ update
    \/ renderReturns
    \/ routeCheck

NextServer ==
    \/ Run
    \/ done
    \/ RenderDispatch
    \/ ApiCallback

SpecServerFair ==
    /\ InitServer
    /\ [][NextServer]_vars
    /\ WF_vars(Run)
    /\ WF_vars(done)
    /\ WF_vars(ApiCallback)

InFlightCount ==
    inflight["API_DOC"] + inflight["API_SNIPPET_ADD"]
      + inflight["API_SNIPPET_VOTE"] + inflight["API_SNIPPET_GET"]
      + inflight["API_SNIPPET_ALL"] + inflight["API_SNIPPET_SEARCH"]

RenderDepth == Cardinality({i \in 1..Len(stack) : stack[i].op = "render"})

\* render() returns to update() in this step (and does not dispatch).
Returning == At("render") /\ nDispatch' = nDispatch

\* C1: store.app.fetchCount is the number of API calls that were started and
\* whose callback has not run: never negative, and back to its value before
\* the calls once none is in flight.
C1_FetchCountIsInFlight ==
    /\ store.app.fetchCount = InFlightCount
    /\ store.app.fetchCount >= 0

\* C2: render() is never invoked while another invocation of it is still in
\* progress: at most one render() call is on the stack.
C2_OneRenderAtATime == RenderDepth <= 1

\* A dispatch made inside render() has called update() while render() runs.
C2_Witness == At("update") /\ InRender /\ isRendering

\* C3 as stated: a render() call that issued N >= 1 dispatches is followed,
\* once it returns, by one more render() call.
C3_AnyDispatchRerenders ==
    [][Returning /\ passDispatches >= 1
          => stack' = <<UpdateCall>> \o Tail(stack)]_vars

\* C3, amended: when at least one of the N dispatches issued inside a
\* render() call requested a render, update() renders exactly once more after
\* the call returns, however many requests there were; a render() call that
\* issued no dispatch is followed by no further render(); and a call of
\* update() outside render() invokes render() exactly once.
C3_RequestsCoalesce ==
    [][/\ Returning /\ passUpdates >= 1
          => /\ stack' = <<UpdateCall>> \o Tail(stack)
             /\ ~isRendering' /\ ~isUpdatePending'
       /\ Returning /\ passDispatches = 0
          => /\ stack' = Tail(stack)
             /\ ~isRendering' /\ ~isUpdatePending'
       /\ At("update") /\ ~isRendering
          => /\ stack' = <<RenderCall>> \o Tail(stack)
             /\ isRendering' /\ ~isUpdatePending']_vars

\* Two requests were made inside one render() call and share one flag.
C3_Witness == At("render") /\ passUpdates >= 2 /\ isUpdatePending

\* C4: no render request is lost: when the running task has finished, a
\* render() has started since the last call of update().
C4_NoRequestLost == stack = <<>> => ~dirty

\* C5 as stated: a dispatch issued from inside render() does not change the
\* ApplicationState while that render() call is executing.
C5_StateFrozenInRender ==
    [][At("dispatch") /\ InRender => store' = store]_vars

\* C5, amended: a dispatch issued from inside render() runs at once and its
\* state change is applied during the render() call; only its render request
\* is captured: update() sets isUpdatePending and returns, without invoking
\* render() and without touching the state.
C5_RequestCaptured ==
    [][At("update") /\ InRender
          => /\ isUpdatePending'
             /\ isRendering'
             /\ stack' = Tail(stack)
             /\ store' = store]_vars

\* A dispatch made inside render() has changed the title and its render
\* request is pending while render() is still running.
C5_Witness ==
    /\ At("render")
    /\ isUpdatePending
    /\ passDispatches >= 1
    /\ store.app.title # Null

\* C6: API_SNIPPET_ADD with userName null starts no API call, appends one
\* error, stores the dispatched action in the bridge and goes on to the
\* redirect, which sets the location to the authentication entry point.
C6_LoginRequired ==
    [][/\ AtDispatch("API_SNIPPET_ADD") /\ store.userName = Null
          => /\ inflight' = inflight
             /\ store'.errors =
                   Append(store.errors,
                          [message |-> LoginError.message, code |-> Null])
             /\ pendingDispatch' # None
             /\ JSONParse(pendingDispatch'[1]) =
                   Some([type |-> "API_SNIPPET_ADD",
                         data |-> DropUndefined(data)])
             /\ stack' = <<UpdateCall, RedirectStmt>> \o Tail(stack)
       /\ At("redirect") => href' = "/auth/twitter"]_vars

\* The dispatch has returned: one error, the bridge filled, the redirect
\* issued, no API call in flight.
C6_Witness ==
    /\ stack = <<>>
    /\ store.userName = Null
    /\ href = "/auth/twitter"
    /\ Len(store.errors) = 1
    /\ pendingDispatch # None
    /\ InFlightCount = 0

\* C7: a *_DONE action that carries an error decrements fetchCount, appends
\* one {message, code} record to store.errors, calls update(), does not
\* throw, and changes nothing else of the store.
C7_DoneWithError ==
    [][At("dispatch") /\ Top.type \in DoneTags /\ data.err # None
          => /\ store' =
                  [store EXCEPT
                      !.app.fetchCount = @ - 1,
                      !.errors =
                          Append(@, [message |-> data.err[1].message,
                                     code |-> IF data.err[1].code = Undefined
                                              THEN Null
                                              ELSE data.err[1].code])]
             /\ stack' = <<UpdateCall>> \o Tail(stack)
             /\ failure' = "none"]_vars

\* A failed call has completed: its error is logged with a null code and the
\* counter is back to zero.
C7_Witness ==
    /\ stack = <<>>
    /\ Len(store.errors) = 1
    /\ store.errors[1] = [message |-> "failed", code |-> Null]
    /\ store.app.fetchCount = 0
    /\ store.doc = Null

\* C8: dispatching a tag outside the recognized set throws, and the exception
\* leaves dispatch and every caller; the store is not changed.
C8_UnrecognizedThrows ==
    [][At("dispatch") /\ Top.type = BogusTag
          => /\ failure' = "Unrecognized dispatch type"
             /\ stack' = <<>>
             /\ store' = store]_vars

\* The failure has propagated out of a render() call.
C8_Witness ==
    /\ failure = "Unrecognized dispatch type"
    /\ stack = <<>>
    /\ isRendering

\* C9 as stated: once RUN_PENDING_DISPATCH has run on a stored action, a
\* RUN_PENDING_DISPATCH of a later load, with no save by the user in between,
\* finds the bridge empty.
C9_ReplayedOnce ==
    AtDispatch("RUN_PENDING_DISPATCH") /\ replay \in {"replayed+load", "resaved+load"}
        => pendingDispatch = None

\* C9, amended: the same, unless the replayed action was an API_SNIPPET_ADD
\* that found userName null and saved itself again.
C9_ReplayedOnceUnlessResaved ==
    AtDispatch("RUN_PENDING_DISPATCH") /\ replay = "replayed+load"
        => pendingDispatch = None

\* A replay failed on corrupt contents, the page was loaded again and
\* RUN_PENDING_DISPATCH is about to find the bridge empty.
C9_Witness ==
    /\ AtDispatch("RUN_PENDING_DISPATCH")
    /\ replay = "replayed+load"
    /\ pendingDispatch = None

\* C10: on corrupt bridge contents RUN_PENDING_DISPATCH lets no failure
\* escape and clears the bridge.
C10_CorruptSwallowed ==
    [][AtDispatch("RUN_PENDING_DISPATCH") /\ pendingDispatch = Some(CorruptText)
          => /\ failure' = "none"
             /\ pendingDispatch' = None]_vars

\* The actions addPendingDispatch is called with (line 174).
SavableActions == {[type |-> "API_SNIPPET_ADD", data |-> d] : d \in AddData}

C12_EmptyReplayIsNoOp ==
    [][AtDispatch("RUN_PENDING_DISPATCH") /\ pendingDispatch = None
          => /\ store' = store
             /\ pendingDispatch' = None
             /\ inflight' = inflight
             /\ stack' = Tail(stack)
             /\ failure' = failure
             /\ isRendering' = isRendering
             /\ isUpdatePending' = isUpdatePending]_vars

\* RUN_PENDING_DISPATCH runs on an empty bridge, inside render(), with an
\* error already in the store.
C12_Witness ==
    /\ AtDispatch("RUN_PENDING_DISPATCH")
    /\ pendingDispatch = None
    /\ InRender
    /\ store.errors # <<>>

\* done() (lines 34-40) runs in this step, called at line 24 or by the tick.
Responding == Len(sent') = Len(sent) + 1

\* C13: the server formats the response only when the fetch counter is zero:
\* whenever done() runs, store.app.fetchCount = 0.
C13_SettledWhenDone ==
    [][Responding => store.app.fetchCount = 0]_vars

\* C14: a *_DONE dispatch that brings the counter to zero notifies the
\* observer, which queues done() for the next tick; done() never runs inside
\* a dispatch, only from an empty call stack after the dispatch has returned.
C14_ObserverDeferred ==
    [][/\ At("dispatch") /\ Top.type \in DoneTags
          => /\ sent' = sent
             /\ ticks' = IF ~isBrowser /\ store.app.fetchCount = 1
                         THEN ticks + 1 ELSE ticks
       /\ At("dispatch") => sent' = sent
       /\ ticks' < ticks => stack = <<>> /\ stack' = <<>> /\ Responding]_vars

\* The counter has reached zero and done() is queued while the *_DONE
\* dispatch is still rendering.
C14_Witness ==
    /\ ticks = 1
    /\ At("render")
    /\ store.app.fetchCount = 0
    /\ sent = <<>>

\* C15: the status of a response is 404 exactly when store.location.name is
\* 'not-found' when done() runs, and 200 otherwise.
C15_StatusFromRoute ==
    [][Responding
          => sent'[Len(sent')] =
                IF store.location.name = "not-found" THEN 404 ELSE 200]_vars

\* A request for an unknown URL has been answered with 404.
C15_Witness ==
    /\ sent = <<404>>
    /\ store.location = [name |-> "not-found", url |-> "/nope"]

\* C18: done() executes at most once for a server request.
C18_DoneAtMostOnce == Len(sent) <= 1

\* C16: LOCATION_CHANGED replaces store.location with the payload, sets
\* fatalError to null and calls update(); the fetch counter, errors, snippets,
\* searches, topSnippetIds, userName and the bridge are unchanged.
C16_LocationChangedFrame ==
    [][AtDispatch("LOCATION_CHANGED")
          => /\ store'.location = Top.data
             /\ store'.fatalError = Null
             /\ stack' = <<UpdateCall>> \o Tail(stack)
             /\ store'.app = store.app
             /\ store'.errors = store.errors
             /\ store'.snippets = store.snippets
             /\ store'.searches = store.searches
             /\ store'.topSnippetIds = store.topSnippetIds
             /\ store'.userName = store.userName
             /\ pendingDispatch' = pendingDispatch
             /\ inflight' = inflight]_vars

\* The location changes to another route while a fetch is counted.
C16_Witness ==
    /\ AtDispatch("LOCATION_CHANGED")
    /\ store.app.fetchCount > 0
    /\ store.location.name \notin {Null, Top.data.name}

\* The successful completion a dispatch step handles, as the sequence of
\* snippets it carries (lines 203-209, 219-226, 235-244); <<>> otherwise.
Merged ==
    IF At("dispatch") /\ Top.type \in {"API_SNIPPET_VOTE_DONE",
                                       "API_SNIPPET_GET_DONE",
                                       "API_SNIPPET_ALL_DONE"}
       /\ Top.data.err = None
    THEN IF Top.type = "API_SNIPPET_ALL_DONE"
         THEN Top.data.res.snippets
         ELSE <<Top.data.res.snippet>>
    ELSE <<>>

\* The last snippet of the sequence with this id, if there is one.
LastFor(snippets, id) ==
    LET at == {i \in 1..Len(snippets) : snippets[i].id = id}
    IN IF at = {} THEN None
       ELSE Some(snippets[CHOOSE i \in at : \A j \in at : j <= i])

\* C17: a successful VOTE/GET/ALL completion overwrites the cache entry of
\* every id it carries and decrements the counter, whatever the location is
\* now; no other step of the store changes an entry, so an entry always holds
\* the snippet of the latest successful completion and is never removed.
C17_KeyedOverwrite ==
    [][~Reload =>
        /\ \A id \in SnippetIds :
              store'.snippets[id] =
                 IF LastFor(Merged, id) # None THEN LastFor(Merged, id)
                 ELSE store.snippets[id]
        /\ At("dispatch") /\ Top.type \in DoneTags
              => store'.app.fetchCount = store.app.fetchCount - 1]_vars

\* A successful completion is about to overwrite a different cached snippet.
C17_Witness ==
    /\ AtDispatch("API_SNIPPET_GET_DONE")
    /\ Top.data.err = None
    /\ store.snippets[Top.data.res.snippet.id]
          \notin {None, Some(Top.data.res.snippet)}

\* C19: whenever no update() call is on the call stack, the render scheduler
\* is idle: isRendering and isUpdatePending are both false.
C19_IdleOutsideUpdate ==
    ~InRender => ~isRendering /\ ~isUpdatePending

====
